---------------------------- MODULE Spec2Model ----------------------------
(***************************************************************************)
(* FHEVault: a staking vault that keeps, for every account and for the     *)
(* whole vault, a plaintext balance and an encrypted (euint64) mirror of   *)
(* it, and moves the staked asset through the confidential token           *)
(* ERC7984USDT.                                                            *)
(*                                                                         *)
(* The vault (contracts/FHEVault.sol) is modelled from its source.  The    *)
(* token contract and the FHE engine are collaborators whose source is not *)
(* part of the tree; they are modelled from their contract in the          *)
(* specification (sections 4.2 and 6).                                     *)
(*                                                                         *)
(* A transaction is one action: the EVM runs a call to the end or reverts  *)
(* every effect of it.                                                     *)
(***************************************************************************)
EXTENDS Naturals, Integers, Sequences, FiniteSets

(***************************************************************************)
(* Bounds of the model.  uint64 is scaled down to 0..MAX_UINT64; uint256   *)
(* is scaled with it (2^256 = (2^64)^4).                                   *)
(***************************************************************************)
MAX_UINT64 == 2

MaxTime == 1

MaxCiphertexts == 7

\* Handler runs of the front end that can be suspended at an await together.
MaxRuns == 2

MAX_UINT256 == (MAX_UINT64 + 1) * (MAX_UINT64 + 1) * (MAX_UINT64 + 1) * (MAX_UINT64 + 1) - 1

Uint64 == 0..MAX_UINT64

(***************************************************************************)
(* Principals: the accounts that stake, the vault and the token contract.  *)
(***************************************************************************)
Accounts == {"alice", "bob"}

VAULT == "vault"

TOKEN == "token"

Principals == Accounts \cup {VAULT, TOKEN}

Holders == Accounts \cup {VAULT}

(***************************************************************************)
(* A euint64 handle is a bytes32; the zero handle is "uninitialized".      *)
(* Handle h > 0 names ciphertexts[h], the ciphertext the FHE engine holds  *)
(* for it: its clear value and the principals allowed to use/decrypt it.   *)
(***************************************************************************)
ZeroHandle == 0

(***************************************************************************)
(* The constructor argument is an address, possibly address(0).  Until the *)
(* constructor has returned there is no vault.                             *)
(***************************************************************************)
ZeroAddress == "0x0"

NotDeployed == "not deployed"

VARIABLES
    token,               \* ERC7984USDT public immutable token (NotDeployed: no vault yet)
    _stakes,             \* mapping(address => uint256)
    _stakesCipher,       \* mapping(address => euint64)
    _totalStaked,        \* uint256
    _totalStakedCipher,  \* euint64
    ciphertexts,         \* the FHE engine: handle -> [val, acl]
    events,              \* the vault's event log
    balances,            \* the token: confidential balance of each holder (clear value)
    operators,           \* the token: expiry of each account's delegation to the vault
    now,                 \* block.timestamp
    transferred,         \* the token: the handle its transfer primitive moved in the last transaction
    atTransfer,          \* the token: the vault as it stood when the transfer primitive was invoked
    address,             \* front end: useAccount().address (NoAddress: no wallet connected)
    status,              \* front end: useState<Status | null>, the type of the status shown
    pendingAction,       \* front end: useState<'mint' | 'stake' | 'withdraw' | 'authorize' | null>
    plainStake,          \* front end: vaultStateQuery.data?.user.stake ?? 0n, the last fetched stake
    runs,                \* front end: the handler runs suspended at an await
    lastCall             \* the last transaction and how it ended (sender, amount: of a vault call)

uiVars == <<address, status, pendingAction, plainStake, runs>>

vars == <<token, _stakes, _stakesCipher, _totalStaked, _totalStakedCipher, ciphertexts,
          events, balances, operators, now, transferred, atTransfer, lastCall, uiVars>>

ledgerVars == <<_stakes, _stakesCipher, _totalStaked, _totalStakedCipher, ciphertexts, events>>

registryVars == <<balances, operators>>

(***************************************************************************)
(* The chain state a transaction runs on, as one value.  No transfer has   *)
(* been made in the transaction yet.                                       *)
(***************************************************************************)
World ==
    [_stakes |-> _stakes, _stakesCipher |-> _stakesCipher,
     _totalStaked |-> _totalStaked, _totalStakedCipher |-> _totalStakedCipher,
     ciphertexts |-> ciphertexts, events |-> events,
     balances |-> balances, operators |-> operators, now |-> now,
     transferred |-> ZeroHandle, atTransfer |-> [invoked |-> FALSE]]

(***************************************************************************)
(* The FHE engine.                                                         *)
(***************************************************************************)
isInitialized(h) == h # ZeroHandle

decrypt(w, h) == IF isInitialized(h) THEN w.ciphertexts[h].val ELSE 0

\* A new ciphertext; nobody is allowed on it yet.  Its handle is the next one.
\* The engine keeps the operation that made it and the operand handles.
newCiphertext(w, v, op, args) ==
    [w EXCEPT !.ciphertexts = Append(@, [val |-> v, acl |-> {}, op |-> op, args |-> args])]

lastHandle(w) == Len(w.ciphertexts)

\* FHE.asEuint64(uint64): trivial encryption of a plaintext.
asEuint64(w, amount) == newCiphertext(w, amount % (MAX_UINT64 + 1), "asEuint64", << >>)

\* FHE.add on euint64 wraps modulo 2^64.
FHEadd(w, a, b) ==
    newCiphertext(w, (decrypt(w, a) + decrypt(w, b)) % (MAX_UINT64 + 1), "add", <<a, b>>)

\* FHE.sub on euint64 wraps modulo 2^64.
FHEsub(w, a, b) ==
    newCiphertext(w, (decrypt(w, a) + (MAX_UINT64 + 1) - decrypt(w, b)) % (MAX_UINT64 + 1),
                  "sub", <<a, b>>)

\* FHE.allow(handle, principal): idempotent.
allow(w, h, p) ==
    [w EXCEPT !.ciphertexts[h].acl = @ \cup {p}]

isAllowed(w, h, p) == p \in w.ciphertexts[h].acl


(***************************************************************************)
(* The outcome of a call: its status and the chain state it leaves.  A     *)
(* call that reverts leaves the state it started from.                     *)
(***************************************************************************)
Ok(w) == [status |-> "ok", w |-> w]

\* Variant: the failure is swallowed; the call returns normally with no effect.
Revert_silent(pre, err) == [status |-> "ok", w |-> pre]

\* `revert E()`: every effect of the transaction is undone.
Revert(pre, err) == [status |-> err, w |-> pre]

(***************************************************************************)
(* The confidential token ERC7984USDT (contract only: sections 4.2, 6).    *)
(***************************************************************************)
RECURSIVE SumOver(_, _)
SumOver(f, S) ==
    IF S = {} THEN 0
    ELSE LET x == CHOOSE y \in S : TRUE IN f[x] + SumOver(f, S \ {x})

totalSupply(w) == SumOver(w.balances, Holders)

\* isOperator(holder, spender), for spender = the vault or the holder itself.
isOperator(w, holder, spender) ==
    \/ holder = spender
    \/ spender = VAULT /\ holder \in Accounts /\ w.now <= w.operators[holder]

\* Variant: the token issues without a capacity limit.
mint_uncapped(w, to, amount) == Ok([w EXCEPT !.balances[to] = @ + amount])

\* mint(to, amount): issuance; capacity failures are reported by the token.
mint(w, to, amount) ==
    IF totalSupply(w) + amount > MAX_UINT64
    THEN Revert(w, "CapacityExceeded")
    ELSE Ok([w EXCEPT !.balances[to] = @ + amount])

\* setOperator(vault, expiry) called by holder.
setOperator(w, holder, expiry) ==
    Ok([w EXCEPT !.operators[holder] = expiry])

\* The transfer primitive behind confidentialTransferFrom / confidentialTransfer:
\* `caller` moves the value of ciphertext h from `from` to `to`.
\* What a call back into the vault's getters would return at this point, with
\* the engine's state and the vault's log.
VaultView(w) ==
    [invoked |-> TRUE, _stakes |-> w._stakes, _stakesCipher |-> w._stakesCipher,
     _totalStaked |-> w._totalStaked, _totalStakedCipher |-> w._totalStakedCipher,
     ciphertexts |-> w.ciphertexts, events |-> w.events]

tokenTransfer(w, caller, from, to, h) ==
    LET seen == [w EXCEPT !.atTransfer = VaultView(w)]
    IN  IF ~isOperator(w, from, caller)
        THEN [ok |-> FALSE, err |-> "UnauthorizedSpender", w |-> seen]
        ELSE IF ~isAllowed(w, h, TOKEN)
        THEN [ok |-> FALSE, err |-> "UnauthorizedUseOfEncryptedAmount", w |-> seen]
        ELSE IF w.balances[from] < decrypt(w, h)
        THEN [ok |-> FALSE, err |-> "InsufficientBalance", w |-> seen]
        ELSE [ok |-> TRUE, err |-> "ok",
              w |-> [seen EXCEPT !.balances[from] = @ - decrypt(w, h), !.transferred = h]]

\* credit side of the transfer (kept separate so that from = to is a no-op)
tokenCredit(w, to, h) == [w EXCEPT !.balances[to] = @ + decrypt(w, h)]

confidentialTransferFrom(w, caller, from, to, h) ==
    LET t == tokenTransfer(w, caller, from, to, h)
    IN  IF t.ok THEN [t EXCEPT !.w = tokenCredit(t.w, to, h)] ELSE t

confidentialTransfer(w, caller, to, h) ==
    confidentialTransferFrom(w, caller, caller, to, h)

\* Variant: a transfer to the vault is booked as a stake of the sender.
directTransfer_credit(w, from, to, amount) ==
    IF w.balances[from] < amount THEN Revert(w, "InsufficientBalance")
    ELSE Ok([w EXCEPT !.balances[from] = @ - amount, !.balances[to] = @ + amount,
                      !._stakes[from] = IF to = VAULT THEN @ + amount ELSE @])

\* A holder moving `amount` of its own balance directly (encrypted input of its own).
directTransfer(w, from, to, amount) ==
    IF w.balances[from] < amount THEN Revert(w, "InsufficientBalance")
    ELSE Ok([w EXCEPT !.balances[from] = @ - amount, !.balances[to] = @ + amount])

(***************************************************************************)
(* FHEVault.                                                               *)
(***************************************************************************)
\* Variant: the constructor takes any address.
constructor_unchecked(tokenAddress_) == [status |-> "ok", token |-> tokenAddress_]

\* constructor(address tokenAddress_): a revert leaves no contract behind.
constructor(tokenAddress_) ==
    IF tokenAddress_ = ZeroAddress
    THEN [status |-> "InvalidToken", token |-> NotDeployed]
    ELSE [status |-> "ok", token |-> tokenAddress_]

Staked(user, amount) == [name |-> "Staked", user |-> user, amount |-> amount]

Withdrawn(user, amount) == [name |-> "Withdrawn", user |-> user, amount |-> amount]

\* Variant: the event is logged twice.
emit_twice(w, e) == [w EXCEPT !.events = Append(Append(@, e), e)]

emit(w, e) == [w EXCEPT !.events = Append(@, e)]

\* Variant: one slot holds the encrypted stake of all accounts.
_updateEncryptedStake_shared(w, user, amount, isAddition) ==
    LET currentCipher == w._stakesCipher[user]
        w1 == IF ~isInitialized(currentCipher) THEN w
              ELSE IF isAddition THEN FHEadd(w, currentCipher, amount)
              ELSE FHEsub(w, currentCipher, amount)
        updatedCipher == IF ~isInitialized(currentCipher) THEN amount ELSE lastHandle(w1)
        w2 == allow(w1, updatedCipher, VAULT)
        w3 == allow(w2, updatedCipher, user)
    IN  [w3 EXCEPT !._stakesCipher = [a \in Accounts |-> updatedCipher]]

\* Variant: the account accumulator is always added to, also on a withdraw.
_updateEncryptedStake_alwaysAdd(w, user, amount, isAddition) ==
    LET currentCipher == w._stakesCipher[user]
        w1 == IF ~isInitialized(currentCipher) THEN w ELSE FHEadd(w, currentCipher, amount)
        updatedCipher == IF ~isInitialized(currentCipher) THEN amount ELSE lastHandle(w1)
        w2 == allow(w1, updatedCipher, VAULT)
        w3 == allow(w2, updatedCipher, user)
    IN  [w3 EXCEPT !._stakesCipher[user] = updatedCipher]

\* Variant: the account owner is not granted the updated handle.
_updateEncryptedStake_noUserGrant(w, user, amount, isAddition) ==
    LET currentCipher == w._stakesCipher[user]
        w1 == IF ~isInitialized(currentCipher) THEN w
              ELSE IF isAddition THEN FHEadd(w, currentCipher, amount)
              ELSE FHEsub(w, currentCipher, amount)
        updatedCipher == IF ~isInitialized(currentCipher) THEN amount ELSE lastHandle(w1)
        w2 == allow(w1, updatedCipher, VAULT)
    IN  [w2 EXCEPT !._stakesCipher[user] = updatedCipher]

\* Variant: the updated handle is granted but not stored.
_updateEncryptedStake_noStore(w, user, amount, isAddition) ==
    LET currentCipher == w._stakesCipher[user]
        w1 == IF ~isInitialized(currentCipher) THEN w
              ELSE IF isAddition THEN FHEadd(w, currentCipher, amount)
              ELSE FHEsub(w, currentCipher, amount)
        updatedCipher == IF ~isInitialized(currentCipher) THEN amount ELSE lastHandle(w1)
        w2 == allow(w1, updatedCipher, VAULT)
    IN  allow(w2, updatedCipher, user)

\* _updateEncryptedStake(user, amount, isAddition)
_updateEncryptedStake(w, user, amount, isAddition) ==
    LET currentCipher == w._stakesCipher[user]
        w1 == IF ~isInitialized(currentCipher) THEN w
              ELSE IF isAddition THEN FHEadd(w, currentCipher, amount)
              ELSE FHEsub(w, currentCipher, amount)
        updatedCipher == IF ~isInitialized(currentCipher) THEN amount ELSE lastHandle(w1)
        w2 == allow(w1, updatedCipher, VAULT)
        w3 == allow(w2, updatedCipher, user)
    IN  [w3 EXCEPT !._stakesCipher[user] = updatedCipher]

\* Variant: the total accumulator is always added to, also on a withdraw.
_updateTotalEncryptedStake_alwaysAdd(w, amount, isAddition) ==
    LET w1 == IF ~isInitialized(w._totalStakedCipher) THEN w
              ELSE FHEadd(w, w._totalStakedCipher, amount)
        updated == IF ~isInitialized(w._totalStakedCipher) THEN amount ELSE lastHandle(w1)
        w2 == [w1 EXCEPT !._totalStakedCipher = updated]
    IN  allow(w2, w2._totalStakedCipher, VAULT)

\* Variant: the total accumulator is combined also when it is uninitialized.
_updateTotalEncryptedStake_noBypass(w, amount, isAddition) ==
    LET w1 == IF isAddition THEN FHEadd(w, w._totalStakedCipher, amount)
              ELSE FHEsub(w, w._totalStakedCipher, amount)
        w2 == [w1 EXCEPT !._totalStakedCipher = lastHandle(w1)]
    IN  allow(w2, w2._totalStakedCipher, VAULT)

\* _updateTotalEncryptedStake(amount, isAddition)
_updateTotalEncryptedStake(w, amount, isAddition) ==
    LET w1 == IF ~isInitialized(w._totalStakedCipher) THEN w
              ELSE IF isAddition THEN FHEadd(w, w._totalStakedCipher, amount)
              ELSE FHEsub(w, w._totalStakedCipher, amount)
        updated == IF ~isInitialized(w._totalStakedCipher) THEN amount ELSE lastHandle(w1)
        w2 == [w1 EXCEPT !._totalStakedCipher = updated]
    IN  allow(w2, w2._totalStakedCipher, VAULT)

\* Variant: the new stake is computed from the vault's total, not the caller's stake.
stakePlain_fromTotal(w, sender, amount) ==
    [[w EXCEPT !._stakes[sender] = w._totalStaked + amount] EXCEPT !._totalStaked = @ + amount]

\* Variant: the total is not updated.
stakePlain_noTotal(w, sender, amount) ==
    [w EXCEPT !._stakes[sender] = @ + amount]

\* Variant: the total is set to the deposit instead of growing by it.
stakePlain_totalSet(w, sender, amount) ==
    [[w EXCEPT !._stakes[sender] = @ + amount] EXCEPT !._totalStaked = amount]

\* Variant: the new stake overwrites the current one.
stakePlain_overwrite(w, sender, amount) ==
    [[w EXCEPT !._stakes[sender] = amount] EXCEPT !._totalStaked = @ + amount]

\* stake, lines 1003-1007: the plaintext bookkeeping (checked uint256 arithmetic).
stakePlain(w, sender, amount) ==
    LET currentStake == w._stakes[sender]
        newStake == currentStake + amount
    IN  [[w EXCEPT !._stakes[sender] = newStake] EXCEPT !._totalStaked = @ + amount]

\* Variant: the account's encrypted accumulator is left as it was.
stakeCipher_skipAccount(w, sender, amount) ==
    LET w1 == asEuint64(w, amount)
        encryptedAmount == lastHandle(w1)
        w3 == _updateTotalEncryptedStake(w1, encryptedAmount, TRUE)
        w4 == allow(w3, encryptedAmount, VAULT)
    IN  [w |-> allow(w4, encryptedAmount, TOKEN), encryptedAmount |-> encryptedAmount]

\* Variant: a deposit leaves the encrypted total as it was.
stakeCipher_skipTotal(w, sender, amount) ==
    LET w1 == asEuint64(w, amount)
        encryptedAmount == lastHandle(w1)
        w2 == _updateEncryptedStake(w1, sender, encryptedAmount, TRUE)
        w4 == allow(w2, encryptedAmount, VAULT)
    IN  [w |-> allow(w4, encryptedAmount, TOKEN), encryptedAmount |-> encryptedAmount]

\* Variant: the amount is encrypted a second time for the transfer.
stakeCipher_reencrypt(w, sender, amount) ==
    LET w1 == asEuint64(w, amount)
        encryptedAmount == lastHandle(w1)
        w2 == _updateEncryptedStake(w1, sender, encryptedAmount, TRUE)
        w3 == _updateTotalEncryptedStake(w2, encryptedAmount, TRUE)
        w4 == asEuint64(w3, amount)
        again == lastHandle(w4)
        w5 == allow(w4, again, VAULT)
    IN  [w |-> allow(w5, again, TOKEN), encryptedAmount |-> again]

\* stake, lines 1009-1014: one encryption, both accumulators, the grants.
stakeCipher(w, sender, amount) ==
    LET w1 == asEuint64(w, amount)
        encryptedAmount == lastHandle(w1)
        w2 == _updateEncryptedStake(w1, sender, encryptedAmount, TRUE)
        w3 == _updateTotalEncryptedStake(w2, encryptedAmount, TRUE)
        w4 == allow(w3, encryptedAmount, VAULT)
    IN  [w |-> allow(w4, encryptedAmount, TOKEN), encryptedAmount |-> encryptedAmount]

\* Variant: the call fails but keeps what it had written before the token call.
transferFailed_keep(pre, partial, err) == [status |-> err, w |-> partial]

\* Variant: the failure of the token call is swallowed and the call succeeds.
transferFailed_swallow(pre, partial, err) == Ok(partial)

\* A failure of the token call bubbles up: the whole call reverts.
transferFailed(pre, partial, err) == Revert(pre, err)

\* Variant: the zero check is missing.
invalidAmount_never(amount) == FALSE

\* `if (amount == 0) revert InvalidAmount()` of stake and of withdraw
invalidAmount(amount) == amount = 0

\* Variant: the deposit is booked without calling the token.
stakeTransfer_none(w, sender, encryptedAmount) == [ok |-> TRUE, err |-> "ok", w |-> w]

\* stake, line 1016: token.confidentialTransferFrom(msg.sender, address(this), encryptedAmount)
stakeTransfer(w, sender, encryptedAmount) ==
    confidentialTransferFrom(w, VAULT, sender, VAULT, encryptedAmount)

\* Variant: the token is called before the books are written.
stake_transferFirst(w, sender, amount) ==
    IF invalidAmount(amount) THEN Revert(w, "InvalidAmount")
    ELSE IF w._stakes[sender] + amount > MAX_UINT256 \/ w._totalStaked + amount > MAX_UINT256
    THEN Revert(w, "Panic")
    ELSE LET w1 == asEuint64(w, amount)
             encryptedAmount == lastHandle(w1)
             w2 == allow(allow(w1, encryptedAmount, VAULT), encryptedAmount, TOKEN)
             t == stakeTransfer(w2, sender, encryptedAmount)
             w3 == stakePlain(t.w, sender, amount)
             w4 == _updateEncryptedStake(w3, sender, encryptedAmount, TRUE)
             w5 == _updateTotalEncryptedStake(w4, encryptedAmount, TRUE)
         IN  IF ~t.ok THEN transferFailed(w, t.w, t.err)
             ELSE Ok(emit(w5, Staked(sender, amount)))

\* stake(uint64 amount), msg.sender = sender
stake(w, sender, amount) ==
    IF invalidAmount(amount) THEN Revert(w, "InvalidAmount")
    ELSE IF w._stakes[sender] + amount > MAX_UINT256 \/ w._totalStaked + amount > MAX_UINT256
    THEN Revert(w, "Panic")
    ELSE LET c == stakeCipher(stakePlain(w, sender, amount), sender, amount)
             t == stakeTransfer(c.w, sender, c.encryptedAmount)
         IN  IF ~t.ok THEN transferFailed(w, t.w, t.err)
             ELSE Ok(emit(t.w, Staked(sender, amount)))

\* Variant: a withdrawal is taken from the total only, not from the caller's stake.
withdrawPlain_totalOnly(w, sender, amount) ==
    [w EXCEPT !._totalStaked = @ - amount]

\* withdraw, lines 1033-1036: the plaintext bookkeeping.
withdrawPlain(w, sender, amount) ==
    LET currentStake == w._stakes[sender]
        newStake == currentStake - amount
    IN  [[w EXCEPT !._stakes[sender] = newStake] EXCEPT !._totalStaked = @ - amount]

\* Variant: an entry whose stake went to zero is deleted.
withdrawCipher_deleteOnZero(w, sender, amount) ==
    LET w1 == asEuint64(w, amount)
        encryptedAmount == lastHandle(w1)
        w2 == _updateEncryptedStake(w1, sender, encryptedAmount, FALSE)
        w3 == _updateTotalEncryptedStake(w2, encryptedAmount, FALSE)
        w4 == allow(w3, encryptedAmount, VAULT)
        w5 == allow(w4, encryptedAmount, TOKEN)
    IN  [w |-> IF w._stakes[sender] = 0
               THEN [w5 EXCEPT !._stakesCipher[sender] = ZeroHandle]
               ELSE w5,
         encryptedAmount |-> encryptedAmount]

\* withdraw, lines 1038-1043.
withdrawCipher(w, sender, amount) ==
    LET w1 == asEuint64(w, amount)
        encryptedAmount == lastHandle(w1)
        w2 == _updateEncryptedStake(w1, sender, encryptedAmount, FALSE)
        w3 == _updateTotalEncryptedStake(w2, encryptedAmount, FALSE)
        w4 == allow(w3, encryptedAmount, VAULT)
    IN  [w |-> allow(w4, encryptedAmount, TOKEN), encryptedAmount |-> encryptedAmount]

\* Variant: the gate lets one unit too many through.
insufficientStake_offByOne(currentStake, amount) == currentStake + 1 < amount

\* Variant: the gate refuses a withdrawal of the whole stake.
insufficientStake_strict(currentStake, amount) == currentStake <= amount

\* the plaintext gate of withdraw, lines 1028-1031
insufficientStake(currentStake, amount) == currentStake < amount

\* Variant: withdraw pulls from the caller, as stake does.
withdrawTransfer_pull(w, sender, encryptedAmount) ==
    confidentialTransferFrom(w, VAULT, sender, VAULT, encryptedAmount)

\* Variant: the transfer-out asks for the caller's delegation to the vault.
withdrawTransfer_delegated(w, sender, encryptedAmount) ==
    IF ~isOperator(w, sender, VAULT)
    THEN [ok |-> FALSE, err |-> "UnauthorizedSpender", w |-> w]
    ELSE confidentialTransfer(w, VAULT, sender, encryptedAmount)

\* withdraw, line 1045: token.confidentialTransfer(msg.sender, encryptedAmount)
withdrawTransfer(w, sender, encryptedAmount) ==
    confidentialTransfer(w, VAULT, sender, encryptedAmount)

\* withdraw(uint64 amount), msg.sender = sender
withdraw(w, sender, amount) ==
    IF invalidAmount(amount) THEN Revert(w, "InvalidAmount")
    ELSE IF insufficientStake(w._stakes[sender], amount) THEN Revert(w, "InsufficientStake")
    ELSE IF w._stakes[sender] < amount \/ w._totalStaked < amount THEN Revert(w, "Panic")
    ELSE LET c == withdrawCipher(withdrawPlain(w, sender, amount), sender, amount)
             t == withdrawTransfer(c.w, sender, c.encryptedAmount)
         IN  IF ~t.ok THEN transferFailed(w, t.w, t.err)
             ELSE Ok(emit(t.w, Withdrawn(sender, amount)))

\* the read functions
\* Variant: the read returns the vault's total.
getStake_total(w, user) == w._totalStaked

getStake(w, user) == w._stakes[user]

getStakeCipher(w, user) == w._stakesCipher[user]

getTotalStaked(w) == w._totalStaked

getTotalStakedCipher(w) == w._totalStakedCipher

\* Variant: holder and spender are passed to the token in the other order.
isVaultOperator_swapped(w, holder) == isOperator(w, VAULT, holder)

isVaultOperator(w, holder) == isOperator(w, holder, VAULT)

(***************************************************************************)
(* The front end (VaultApp.tsx): the connected account, what the component *)
(* holds in React state, and the handler runs suspended at an await.       *)
(***************************************************************************)
User == "alice"

NoAddress == "undefined"

Null == "null"

Actions == {"mint", "authorize", "stake", "withdraw"}

Slots == 1..MaxRuns

\* A handler run: the action, the amount it validated, and the await it is at:
\* "wallet" (await ensureSigner() and await of the contract method, which
\* resolves once the wallet has signed and sent the transaction), "tx" (await
\* tx.wait()), "queries" (await updateQueries()).
Run(action, amount, phase) == [action |-> action, amount |-> amount, phase |-> phase]

NoRun == Run(Null, 0, "none")

\* The component after its first render.
Mounted ==
    /\ address = NoAddress
    /\ status = Null
    /\ pendingAction = Null
    /\ plainStake = 0
    /\ runs = [s \in Slots |-> NoRun]

(***************************************************************************)
(* The state machine: one action per transaction.                          *)
(***************************************************************************)
NoCall == [op |-> "none", sender |-> "none", amount |-> 0, status |-> "ok"]

Call(op, sender, amount, outcome) ==
    [op |-> op, sender |-> sender, amount |-> amount, status |-> outcome]

Init ==
    /\ token = NotDeployed
    /\ _stakes = [a \in Accounts |-> 0]
    /\ _stakesCipher = [a \in Accounts |-> ZeroHandle]
    /\ _totalStaked = 0
    /\ _totalStakedCipher = ZeroHandle
    /\ ciphertexts = << >>
    /\ events = << >>
    /\ balances = [h \in Holders |-> 0]
    /\ operators = [a \in Accounts |-> 0]
    /\ now = 1
    /\ transferred = ZeroHandle
    /\ atTransfer = [invoked |-> FALSE]
    /\ lastCall = NoCall
    /\ Mounted

\* The state after a transaction that ended as r.
Install(r) ==
    /\ _stakes' = r.w._stakes
    /\ _stakesCipher' = r.w._stakesCipher
    /\ _totalStaked' = r.w._totalStaked
    /\ _totalStakedCipher' = r.w._totalStakedCipher
    /\ ciphertexts' = r.w.ciphertexts
    /\ events' = r.w.events
    /\ balances' = r.w.balances
    /\ operators' = r.w.operators
    /\ now' = now
    /\ transferred' = r.w.transferred
    /\ atTransfer' = r.w.atTransfer
    /\ token' = token
    /\ UNCHANGED uiVars

\* The model stops allocating ciphertexts at MaxCiphertexts.
Room(r) == Len(r.w.ciphertexts) <= MaxCiphertexts

\* Deployment: the constructor runs once; a reverted deployment can be tried again.
Construct(tokenAddress_) ==
    LET r == constructor(tokenAddress_)
    IN  /\ token = NotDeployed
        /\ token' = r.token
        /\ lastCall' = Call("constructor", "none", 0, r.status)
        /\ transferred' = ZeroHandle
        /\ atTransfer' = [invoked |-> FALSE]
        /\ UNCHANGED <<ledgerVars, registryVars, now, uiVars>>

Stake(sender, amount) ==
    LET r == stake(World, sender, amount)
    IN  /\ token # NotDeployed
        /\ Room(r)
        /\ Install(r)
        /\ lastCall' = Call("stake", sender, amount, r.status)

Withdraw(sender, amount) ==
    LET r == withdraw(World, sender, amount)
    IN  /\ token # NotDeployed
        /\ Room(r)
        /\ Install(r)
        /\ lastCall' = Call("withdraw", sender, amount, r.status)

Mint(to, amount) ==
    LET r == mint(World, to, amount)
    IN  /\ Install(r)
        /\ lastCall' = Call("mint", "none", 0, r.status)

SetOperator(holder, expiry) ==
    LET r == setOperator(World, holder, expiry)
    IN  /\ Install(r)
        /\ lastCall' = Call("setOperator", "none", 0, r.status)

DirectTransfer(from, to, amount) ==
    LET r == directTransfer(World, from, to, amount)
    IN  /\ Install(r)
        /\ lastCall' = Call("transfer", "none", 0, r.status)

\* Time passes between transactions.
Tick ==
    /\ now < MaxTime + 1
    /\ now' = now + 1
    /\ lastCall' = NoCall
    /\ transferred' = ZeroHandle
    /\ atTransfer' = [invoked |-> FALSE]
    /\ UNCHANGED <<token, ledgerVars, registryVars, uiVars>>

Next ==
    \/ \E tokenAddress_ \in {ZeroAddress, TOKEN} : Construct(tokenAddress_)
    \/ \E a \in Accounts, amount \in Uint64 : Stake(a, amount)
    \/ \E a \in Accounts, amount \in Uint64 : Withdraw(a, amount)
    \/ \E a \in Accounts, amount \in {1, MAX_UINT64} : Mint(a, amount)
    \/ \E a \in Accounts, expiry \in {0, MaxTime} : SetOperator(a, expiry)
    \/ \E a \in Accounts : \E to \in Holders \ {a}, amount \in {1, MAX_UINT64} :
          DirectTransfer(a, to, amount)
    \/ Tick

Spec == Init /\ [][Next]_vars

(***************************************************************************)
(* Properties.                                                             *)
(***************************************************************************)
\* What the holder of decryption rights reads from a handle of the current state.
Decrypted(h) == ciphertexts[h].val

SumOfStakes == SumOver(_stakes, Accounts)

TransferErrors == {"UnauthorizedSpender", "UnauthorizedUseOfEncryptedAmount", "InsufficientBalance"}

\* C1 (account consistency): in every state between transactions, every account
\* whose encrypted stake handle is initialized has a ciphertext that decrypts to
\* its plaintext stake.
C1_AccountConsistency ==
    \A a \in Accounts :
        isInitialized(_stakesCipher[a]) => Decrypted(_stakesCipher[a]) = _stakes[a]

\* C1 witness: an account deposited twice and withdrew a part (first write, add, sub).
C1_Witness ==
    \E a \in Accounts :
        /\ lastCall = Call("withdraw", a, 1, "ok")
        /\ _stakes[a] = 1
        /\ Len(SelectSeq(events, LAMBDA e : e.name = "Staked" /\ e.user = a)) = 2
        /\ Decrypted(_stakesCipher[a]) = 1

\* C2 (total consistency): whenever the encrypted total handle is initialized it
\* decrypts to the plaintext total.
C2_TotalConsistency ==
    isInitialized(_totalStakedCipher) => Decrypted(_totalStakedCipher) = _totalStaked

\* C2 witness: both accounts deposited and one of them then withdrew.
C2_Witness ==
    /\ \A a \in Accounts : isInitialized(_stakesCipher[a])
    /\ lastCall.op = "withdraw" /\ lastCall.status = "ok"
    /\ _totalStaked = 1
    /\ Decrypted(_totalStakedCipher) = 1

\* C3 (conservation): the plaintext total is the sum of the plaintext stakes.
C3_Conservation == _totalStaked = SumOfStakes

\* C3 witness: both accounts hold a stake after deposits and a withdrawal.
C3_Witness ==
    /\ \A a \in Accounts : _stakes[a] = 1
    /\ _totalStaked = 2
    /\ \E i \in 1..Len(events) : events[i].name = "Withdrawn"

\* What a step must satisfy for C4.
C4_RejectedStep ==
    (lastCall'.op \in {"stake", "withdraw"} /\ lastCall'.status \in TransferErrors)
        => UNCHANGED <<ledgerVars, registryVars>>

\* The vault's balance always covers a withdrawal that passes the plaintext gate,
\* so the rejection of a transfer-out is examined on the current state with the
\* vault's token balance emptied.
C4_WithdrawRejected ==
    \A a \in Accounts, amount \in 1..MAX_UINT64 :
        amount <= _stakes[a] =>
            LET w0 == [World EXCEPT !.balances[VAULT] = 0]
                r == withdraw(w0, a, amount)
            IN  r.status = "InsufficientBalance" /\ r.w = w0

\* C4 (atomicity on transfer failure): a stake or withdraw whose token transfer
\* is rejected fails and leaves the vault's plaintext and encrypted quantities,
\* the decryption grants, the event log and the token's state as they were.
C4_AtomicOnTransferFailure == [][C4_RejectedStep]_vars /\ []C4_WithdrawRejected

\* C4 witness: an account with a stake whose delegation is no longer live deposits
\* again and is rejected by the token.
C4_Witness ==
    \E a \in Accounts :
        /\ lastCall.op = "stake" /\ lastCall.sender = a
        /\ lastCall.status = "UnauthorizedSpender"
        /\ _stakes[a] > 0
        /\ balances[a] >= lastCall.amount

\* What a step must satisfy for C5.
C5_Step ==
    (lastCall'.op = "withdraw" /\ lastCall'.amount > _stakes[lastCall'.sender])
        => /\ lastCall'.status = "InsufficientStake"
           /\ UNCHANGED <<ledgerVars, registryVars>>

\* C5 (insufficient stake): a withdraw of more than the caller's plaintext stake
\* fails with InsufficientStake and changes neither the vault nor the token.
C5_InsufficientStake == [][C5_Step]_vars

\* C5 witness: an account holding 1 tried to withdraw 2.
C5_Witness ==
    \E a \in Accounts :
        /\ lastCall = Call("withdraw", a, 2, "InsufficientStake")
        /\ _stakes[a] = 1

\* What a step must satisfy for C6.
C6_Step ==
    (lastCall'.op \in {"stake", "withdraw"} /\ lastCall'.amount = 0)
        => /\ lastCall'.status = "InvalidAmount"
           /\ UNCHANGED <<ledgerVars, registryVars>>

\* C6 (zero amount): stake(0) and withdraw(0) fail with InvalidAmount and change
\* nothing: no plaintext or encrypted quantity, no ciphertext, no token state, no event.
C6_InvalidAmount == [][C6_Step]_vars

\* C6 witness: stake(0) by an account that holds a stake and a live delegation.
C6_Witness ==
    \E a \in Accounts :
        /\ lastCall = Call("stake", a, 0, "InvalidAmount")
        /\ _stakes[a] > 0
        /\ isVaultOperator(World, a)

\* What a step must satisfy for C7.
C7_Step ==
    (lastCall'.op = "stake" /\ lastCall'.status = "ok") =>
        LET a == lastCall'.sender
            amount == lastCall'.amount
        IN  /\ _stakes' = [_stakes EXCEPT ![a] = @ + amount]
            /\ _totalStaked' = _totalStaked + amount
            /\ _stakes[a] = 0 =>
                  /\ _stakes'[a] = amount
                  /\ isInitialized(_stakesCipher'[a])
                  /\ ciphertexts'[_stakesCipher'[a]].val = amount

\* C7 (deposit effect): a successful stake of amount adds exactly amount to the
\* caller's plaintext stake and to the plaintext total; a first deposit leaves the
\* stake, and its decrypted handle, equal to amount.
C7_DepositEffect == [][C7_Step]_vars

\* C7 witness: a first deposit of 2 by an account, nothing else staked.
C7_Witness ==
    \E a \in Accounts :
        /\ lastCall = Call("stake", a, 2, "ok")
        /\ _stakes[a] = 2 /\ _totalStaked = 2
        /\ Decrypted(_stakesCipher[a]) = 2
        /\ Len(events) = 1

\* What a step must satisfy for C8.
C8_Step ==
    LET a == lastCall'.sender
        amount == lastCall'.amount
    IN  (lastCall'.op = "withdraw" /\ 0 < amount /\ amount <= _stakes[a]) =>
            /\ lastCall'.status = "ok" =>
                  /\ _stakes' = [_stakes EXCEPT ![a] = @ - amount]
                  /\ _totalStaked' = _totalStaked - amount
            /\ amount = _stakes[a] =>
                  /\ lastCall'.status = "ok"
                  /\ _stakes'[a] = 0

\* C8 (withdraw effect): a successful withdraw of amount takes exactly amount from
\* the caller's plaintext stake and from the plaintext total; a withdraw of the
\* whole stake succeeds and leaves the stake, as read afterwards, at zero.
C8_WithdrawEffect == [][C8_Step]_vars

\* C8 witness: an account withdrew its whole stake while the other still holds one.
C8_Witness ==
    \E a \in Accounts :
        /\ lastCall.op = "withdraw" /\ lastCall.sender = a /\ lastCall.status = "ok"
        /\ _stakes[a] = 0
        /\ isInitialized(_stakesCipher[a])
        /\ _totalStaked > 0

\* What a step must satisfy for C9.
C9_Step ==
    lastCall'.op = "stake" =>
        LET a == lastCall'.sender
            amount == lastCall'.amount
            covered == isVaultOperator(World, a) /\ balances[a] >= amount
        IN  /\ lastCall'.status = "ok" => covered
            /\ ~covered => UNCHANGED <<ledgerVars, registryVars>>

\* C9 (deposit needs delegation and balance): a stake succeeds only if, when it is
\* called, the token holds an unexpired delegation from the caller to the vault and
\* the caller's balance covers the amount; otherwise the vault records nothing.
C9_DepositNeedsDelegation == [][C9_Step]_vars

\* C9 witness: a deposit refused because the delegation had expired (not: was never
\* given), although the balance covered it.
C9_Witness ==
    \E a \in Accounts :
        /\ lastCall.op = "stake" /\ lastCall.sender = a
        /\ lastCall.status = "UnauthorizedSpender"
        /\ operators[a] > 0 /\ now > operators[a]
        /\ balances[a] >= lastCall.amount
        /\ _stakes[a] = 0

\* What a step must satisfy for C10.
C10_Step ==
    LET a == lastCall'.sender
        amount == lastCall'.amount
    IN  /\ (lastCall'.op = "stake" /\ lastCall'.status = "ok") =>
              balances' = [balances EXCEPT ![VAULT] = @ + amount, ![a] = @ - amount]
        /\ (lastCall'.op = "withdraw" /\ lastCall'.status = "ok") =>
              balances' = [balances EXCEPT ![VAULT] = @ - amount, ![a] = @ + amount]

\* C10 (asset movement): a successful stake moves amount from the caller's token
\* balance to the vault's; a successful withdraw moves amount from the vault's
\* token balance to the caller's.
C10_AssetMovement == [][C10_Step]_vars

\* C10 witness: a withdrawal paid out while the caller also held a token balance
\* and a live delegation.
C10_Witness ==
    \E a \in Accounts :
        /\ lastCall = Call("withdraw", a, 1, "ok")
        /\ balances[a] = 2
        /\ balances[VAULT] = 0
        /\ isVaultOperator(World, a)

\* The deposit of ay by y on the chain state that the call first left, first
\* having run on w; alone is stake(w, y, ay), which is that deposit when first
\* left w as it was (a reverted call).
StakeAfter(w, first, y, ay, alone) ==
    IF first.w = w THEN alone ELSE stake(first.w, y, ay)

\* From any reachable state, deposits by two different accounts commute on the
\* plaintext quantities, and when both succeed each stake grows by its own amount.
C11_Commute ==
    \A pair \in {{x, y} : x \in Accounts, y \in Accounts} :
        Cardinality(pair) = 2 =>
            LET x == CHOOSE a \in pair : TRUE
                y == CHOOSE a \in pair : a # x
                firstOf == [a \in pair |->
                               {[amount |-> amt, r |-> stake(World, a, amt)] :
                                    amt \in 1..MAX_UINT64}]
                firstOfX == firstOf[x]
                firstOfY == firstOf[y]
            IN  \A fx \in firstOfX, fy \in firstOfY :
                    LET xy == StakeAfter(World, fx.r, y, fy.amount, fy.r)
                        yx == StakeAfter(World, fy.r, x, fx.amount, fx.r)
                    IN  /\ xy.status = fy.r.status /\ yx.status = fx.r.status
                        /\ xy.w._stakes = yx.w._stakes
                        /\ xy.w._totalStaked = yx.w._totalStaked
                        /\ (fx.r.status = "ok" /\ fy.r.status = "ok") =>
                              /\ xy.w._stakes =
                                    [_stakes EXCEPT ![x] = @ + fx.amount, ![y] = @ + fy.amount]
                              /\ xy.w._totalStaked = _totalStaked + fx.amount + fy.amount

\* Scenario D as it happens: the vault's first two deposits came from two accounts.
C11_ScenarioD ==
    (Len(events) = 2 /\ events[1].name = "Staked" /\ events[2].name = "Staked"
        /\ events[1].user # events[2].user) =>
            /\ _stakes[events[1].user] = events[1].amount
            /\ _stakes[events[2].user] = events[2].amount
            /\ _totalStaked = events[1].amount + events[2].amount

\* C11 (order independence): deposits by two distinct accounts give the same
\* plaintext stakes and the same plaintext total in either order, the total being
\* the sum of both amounts and each account's stake its own contribution.
C11_OrderIndependence == [](C11_Commute /\ C11_ScenarioD)

\* C11 witness: bob deposited 1, then alice deposited 1.
C11_Witness ==
    /\ events = <<Staked("bob", 1), Staked("alice", 1)>>
    /\ _stakes["alice"] = 1 /\ _stakes["bob"] = 1
    /\ _totalStaked = 2

\* What a step must satisfy for C12: the other accounts' entries, and the
\* ciphertexts behind their handles, are as before.
C12_Step ==
    lastCall'.op \in {"stake", "withdraw"} =>
        \A y \in Accounts \ {lastCall'.sender} :
            /\ _stakes'[y] = _stakes[y]
            /\ _stakesCipher'[y] = _stakesCipher[y]
            /\ isInitialized(_stakesCipher[y]) =>
                  ciphertexts'[_stakesCipher[y]] = ciphertexts[_stakesCipher[y]]

\* C12 (frame): a stake or withdraw by one account, successful or failed, leaves
\* the plaintext stake and the encrypted stake of every other account unchanged.
C12_Frame == [][C12_Step]_vars

\* C12 witness: an account deposited while the other one held a stake.
C12_Witness ==
    \E x \in Accounts, y \in Accounts :
        /\ x # y
        /\ lastCall.op = "stake" /\ lastCall.sender = x /\ lastCall.status = "ok"
        /\ _stakes[y] > 0
        /\ isInitialized(_stakesCipher[y])
        /\ _stakesCipher[y] # _stakesCipher[x]
        /\ events[1].user = y

\* What every step must satisfy for C13: the plaintext and the encrypted view of
\* an entry change together and agree afterwards, and the bookkeeping changes
\* exactly with the token transfer of the same call.
C13_Step ==
    /\ \A a \in Accounts :
          /\ (_stakes'[a] # _stakes[a]) <=> (_stakesCipher'[a] # _stakesCipher[a])
          /\ (_stakes'[a] # _stakes[a]) =>
                /\ isInitialized(_stakesCipher'[a])
                /\ ciphertexts'[_stakesCipher'[a]].val = _stakes'[a]
    /\ (_totalStaked' # _totalStaked) <=> (_totalStakedCipher' # _totalStakedCipher)
    /\ (_totalStaked' # _totalStaked) =>
          /\ isInitialized(_totalStakedCipher')
          /\ ciphertexts'[_totalStakedCipher'].val = _totalStaked'
          /\ lastCall'.op \in {"stake", "withdraw"} /\ lastCall'.status = "ok"
    /\ lastCall'.op \in {"stake", "withdraw"} =>
          LET a == lastCall'.sender
          IN  /\ balances'[VAULT] - balances[VAULT] = _totalStaked' - _totalStaked
              /\ balances[a] - balances'[a] = _stakes'[a] - _stakes[a]
              /\ _stakes'[a] - _stakes[a] = _totalStaked' - _totalStaked

\* C13 (serializability): each stake or withdraw takes effect as one indivisible
\* step; between calls nobody sees the plaintext quantities updated without the
\* encrypted ones, nor the bookkeeping changed without the token transfer, nor the
\* transfer without the bookkeeping.
C13_Indivisible == [][C13_Step]_vars

\* C13 witness: calls of both accounts interleaved, the last one a withdrawal, and
\* the vault's token balance is what its bookkeeping says.
C13_Witness ==
    \E x \in Accounts, y \in Accounts :
        /\ x # y
        /\ Len(events) = 3
        /\ events[1].user = x /\ events[2].user = y
        /\ events[3] = Withdrawn(x, 1)
        /\ lastCall = Call("withdraw", x, 1, "ok")
        /\ balances[VAULT] = _totalStaked

\* The stakes obtained by replaying a log of events from the empty vault.
RECURSIVE Replay(_)
Replay(log) ==
    IF log = << >> THEN [a \in Accounts |-> 0]
    ELSE LET e == log[Len(log)]
             before == Replay(SubSeq(log, 1, Len(log) - 1))
         IN  IF e.name = "Staked"
             THEN [before EXCEPT ![e.user] = @ + e.amount]
             ELSE [before EXCEPT ![e.user] = @ - e.amount]

\* What every step must satisfy for C14.
C14_Step ==
    IF lastCall'.op = "stake" /\ lastCall'.status = "ok"
    THEN events' = Append(events, Staked(lastCall'.sender, lastCall'.amount))
    ELSE IF lastCall'.op = "withdraw" /\ lastCall'.status = "ok"
    THEN events' = Append(events, Withdrawn(lastCall'.sender, lastCall'.amount))
    ELSE events' = events

\* The log is the history of the successful calls: replaying it gives the stakes.
C14_LogReplays == Replay(events) = _stakes

\* C14 (events): each successful deposit emits exactly one Staked(caller, amount),
\* each successful withdrawal exactly one Withdrawn(caller, amount), a failed call
\* and every other step emit nothing, so the log is the sequence of the
\* successful calls.
C14_Events == [][C14_Step]_vars /\ []C14_LogReplays

\* C14 witness: a deposit and a withdrawal are logged, and a later failed call
\* has left the log alone.
C14_Witness ==
    /\ events = <<Staked("alice", 2), Withdrawn("alice", 1)>>
    /\ lastCall = Call("withdraw", "alice", 2, "InsufficientStake")

\* C15 (grants): once an account has deposited or withdrawn, its owner and the
\* vault hold decryption rights on its current stake handle, and the vault holds
\* decryption rights on the current total handle.
C15_Grants ==
    /\ \A a \in Accounts :
          isInitialized(_stakesCipher[a]) =>
              /\ isAllowed(World, _stakesCipher[a], a)
              /\ isAllowed(World, _stakesCipher[a], VAULT)
    /\ isInitialized(_totalStakedCipher) =>
          isAllowed(World, _totalStakedCipher, VAULT)

\* C15 witness: after a deposit and a partial withdrawal the handles are the
\* results of homomorphic operations, and carry the grants.
C15_Witness ==
    \E a \in Accounts :
        /\ lastCall = Call("withdraw", a, 1, "ok")
        /\ _stakes[a] = 1
        /\ isInitialized(_stakesCipher[a])
        /\ ciphertexts[_stakesCipher[a]].acl = {a, VAULT}
        /\ VAULT \in ciphertexts[_totalStakedCipher].acl

\* C16 (who can decrypt a stake): the principals granted decryption rights on an
\* account's current stake handle are among the account owner and the vault.
\* Not an invariant of the contract: on an account's first deposit the stake
\* handle is the handle of the deposited amount (line 1090), on which stake then
\* calls FHE.allow(encryptedAmount, address(token)) (line 1014).
C16_OnlyOwnerAndVault ==
    \A a \in Accounts :
        isInitialized(_stakesCipher[a]) =>
            ciphertexts[_stakesCipher[a]].acl \subseteq {a, VAULT}

\* What an observer without decryption rights reads from the vault: the plaintext
\* getters and the event log.
PublicView(w) ==
    [stake |-> [a \in Accounts |-> getStake(w, a)],
     total |-> getTotalStaked(w),
     events |-> w.events]

\* Account x deposits 2 and withdraws 1 (two calls).
StakeTwoWithdrawOne(w, x) ==
    LET s == stake(w, x, 2)
    IN  IF s.status = "ok" THEN withdraw(s.w, x, 1) ELSE s

\* Histories continuing w that add 1 to the total: some account deposits 1, or
\* deposits 2 and withdraws 1.
HistoriesAddingOne(w) ==
    {r \in {stake(w, x, 1) : x \in Accounts} \cup
           {StakeTwoWithdrawOne(w, x) : x \in Accounts} : r.status = "ok"}

\* C17 (no per-user plaintext on chain): two histories that give the same total
\* look the same through the plaintext reads and the event log.
\* Not a property of the contract: getStake (lines 1051-1053) returns each
\* account's plaintext stake and the events (lines 981-982, 1018, 1047) carry the
\* caller and the plaintext amount.
C17_Indistinguishable ==
    \A p \in HistoriesAddingOne(World), q \in HistoriesAddingOne(World) :
        getTotalStaked(p.w) = getTotalStaked(q.w) => PublicView(p.w) = PublicView(q.w)

\* The account has a successful deposit in the log.
HasStaked(a) == \E i \in 1..Len(events) : events[i] = Staked(a, events[i].amount)

\* C18 (reads of unknown accounts): for an account that never staked getStake
\* returns 0 and getStakeCipher the uninitialized handle; before any deposit
\* getTotalStaked returns 0 and getTotalStakedCipher the uninitialized handle.
C18_DefaultReads ==
    /\ \A a \in Accounts :
          ~HasStaked(a) =>
              /\ getStake(World, a) = 0
              /\ getStakeCipher(World, a) = ZeroHandle
    /\ (\A a \in Accounts : ~HasStaked(a)) =>
          /\ getTotalStaked(World) = 0
          /\ getTotalStakedCipher(World) = ZeroHandle

\* C18 witness: one account has a stake, the other never staked (its deposit
\* was rejected) and reads as the defaults.
C18_Witness ==
    \E x \in Accounts, y \in Accounts :
        /\ x # y
        /\ HasStaked(x) /\ getStake(World, x) > 0
        /\ ~HasStaked(y)
        /\ lastCall.op = "stake" /\ lastCall.sender = y /\ lastCall.status # "ok"
        /\ getStake(World, y) = 0
        /\ getStakeCipher(World, y) = ZeroHandle

\* C20 (operator query): isVaultOperator(account) is true exactly when the token
\* holds an unexpired delegation from the account to the vault: false before any
\* setOperator, true while the time has not passed the expiry, false once it
\* has, whatever the vault did or did not do in between.
C20_OperatorQuery ==
    \A a \in Accounts : isVaultOperator(World, a) <=> (now <= operators[a])

\* C20 witness: a delegation granted until MaxTime has expired by the passage of
\* time alone, with no vault operation ever made, and the query answers false
\* for it while the other account never delegated.
C20_Witness ==
    \E a \in Accounts, b \in Accounts :
        /\ a # b
        /\ operators[a] = MaxTime /\ operators[b] = 0
        /\ now = MaxTime + 1
        /\ lastCall = NoCall
        /\ events = << >> /\ ciphertexts = << >>
        /\ ~isVaultOperator(World, a) /\ ~isVaultOperator(World, b)

\* What every step must satisfy for C21: a construction with the null address
\* fails and leaves no vault, and the token of a vault never changes.
C21_Step ==
    /\ (token # NotDeployed) => token' = token
    /\ (lastCall'.op = "constructor") =>
          /\ lastCall'.status \in {"ok", "InvalidToken"}
          /\ (lastCall'.status = "InvalidToken") <=> (token' = NotDeployed)
          /\ (lastCall'.status = "ok") <=> (token' = TOKEN)

\* C21 (construction): constructing the vault with a null token address fails
\* (InvalidToken), so no vault with a null token ever exists, and the token of a
\* constructed vault never changes.
C21_Construction == [](token # ZeroAddress) /\ [][C21_Step]_vars

\* C21 witness: a construction with the null address has just been rejected, and
\* there is no vault.
C21_Witness ==
    /\ lastCall = Call("constructor", "none", 0, "InvalidToken")
    /\ token = NotDeployed

\* What every step must satisfy for C22: a step that is not a stake or a withdraw
\* of the vault leaves the stake entries, the totals, the vault's ciphertexts and
\* its log as they were.
C22_Step ==
    (lastCall'.op \notin {"stake", "withdraw"}) =>
        /\ _stakes' = _stakes
        /\ _stakesCipher' = _stakesCipher
        /\ _totalStaked' = _totalStaked
        /\ _totalStakedCipher' = _totalStakedCipher
        /\ ciphertexts' = ciphertexts
        /\ events' = events

\* C22 (exclusive ownership): the stake entries and the totals change only through
\* the vault's stake and withdraw; mint, setOperator and confidential transfers made
\* directly on the token, transfers to the vault's address included, leave them
\* unchanged.
C22_ExclusiveOwnership == [][C22_Step]_vars

\* C22 witness: with a stake in the vault, a holder has just sent tokens directly
\* to the vault's address; the vault's books did not move.
C22_Witness ==
    /\ lastCall = Call("transfer", "none", 0, "ok")
    /\ _totalStaked > 0
    /\ balances[VAULT] > _totalStaked
    /\ SumOfStakes = _totalStaked

\* The handles the engine made during the step.
NewHandles == (Len(ciphertexts) + 1)..Len(ciphertexts')

\* After the step, accumulator handle new holds the fold of delta into old: delta
\* itself on a first write, else the result of one homomorphic operation on
\* <<old, delta>>.
FoldedInto(old, new, delta) ==
    IF ~isInitialized(old) THEN new = delta
    ELSE /\ new \in NewHandles
         /\ ciphertexts'[new].op \in {"add", "sub"}
         /\ ciphertexts'[new].args = <<old, delta>>

\* What every step must satisfy for C23.
C23_Step ==
    (lastCall'.op \in {"stake", "withdraw"} /\ lastCall'.status = "ok") =>
        LET encryptedAmount == Len(ciphertexts) + 1
            sender == lastCall'.sender
        IN  /\ Cardinality({h \in NewHandles : ciphertexts'[h].op = "asEuint64"}) = 1
            /\ encryptedAmount \in NewHandles
            /\ ciphertexts'[encryptedAmount].op = "asEuint64"
            /\ ciphertexts'[encryptedAmount].val = lastCall'.amount
            /\ FoldedInto(_stakesCipher[sender], _stakesCipher'[sender], encryptedAmount)
            /\ FoldedInto(_totalStakedCipher, _totalStakedCipher', encryptedAmount)
            /\ transferred' = encryptedAmount

\* C23 (one encryption): each successful stake or withdraw encrypts the amount
\* exactly once, and that one handle is the one folded into the account's
\* encrypted stake, folded into the encrypted total and passed to the token's
\* transfer primitive.
C23_OneEncryption == [][C23_Step]_vars

\* C23 witness: a second deposit of an account: the call made three ciphertexts,
\* one encryption and two sums over it, and the token moved the encryption.
C23_Witness ==
    \E a \in Accounts :
        /\ lastCall = Call("stake", a, 1, "ok")
        /\ _stakes[a] = 2
        /\ Len(ciphertexts) >= 4
        /\ transferred = Len(ciphertexts) - 2
        /\ ciphertexts[transferred].op = "asEuint64"
        /\ ciphertexts[_stakesCipher[a]].args[2] = transferred
        /\ ciphertexts[_totalStakedCipher].args[2] = transferred

\* After the step, accumulator handle new is the update of old by delta under
\* operation op: delta itself when old is uninitialized, else the op of old and
\* delta, a ciphertext made in the step.
UpdatedBy(old, new, delta, op) ==
    IF ~isInitialized(old) THEN new = delta
    ELSE /\ new \in NewHandles
         /\ ciphertexts'[new].op = op
         /\ ciphertexts'[new].args = <<old, delta>>
         /\ ciphertexts'[new].val =
               IF op = "add"
               THEN (ciphertexts[old].val + ciphertexts'[delta].val) % (MAX_UINT64 + 1)
               ELSE (ciphertexts[old].val + (MAX_UINT64 + 1) - ciphertexts'[delta].val)
                        % (MAX_UINT64 + 1)

\* What every step must satisfy for C24.
C24_Step ==
    (lastCall'.op \in {"stake", "withdraw"} /\ lastCall'.status = "ok") =>
        LET delta == Len(ciphertexts) + 1
            sender == lastCall'.sender
            op == IF lastCall'.op = "stake" THEN "add" ELSE "sub"
            initialized ==
                {a \in {sender} : isInitialized(_stakesCipher[a])}
                    \cup {t \in {"total"} : isInitialized(_totalStakedCipher)}
        IN  /\ UpdatedBy(_stakesCipher[sender], _stakesCipher'[sender], delta, op)
            /\ UpdatedBy(_totalStakedCipher, _totalStakedCipher', delta, op)
            /\ Cardinality({h \in NewHandles : ciphertexts'[h].op \in {"add", "sub"}})
                  = Cardinality(initialized)

\* No homomorphic operation was ever given an uninitialized operand.
C24_Operands ==
    \A h \in 1..Len(ciphertexts) :
        ciphertexts[h].op \in {"add", "sub"} =>
            /\ isInitialized(ciphertexts[h].args[1])
            /\ isInitialized(ciphertexts[h].args[2])

\* C24 (accumulator update rule): for the account accumulator and for the total,
\* an uninitialized handle is replaced by the amount ciphertext itself with no
\* homomorphic operation, an initialized one by FHE.add(current, amount) on a
\* stake and FHE.sub(current, amount) on a withdraw; the homomorphic operations
\* never get an uninitialized operand.
C24_UpdateRule == []C24_Operands /\ [][C24_Step]_vars

\* C24 witness: an account's first deposit into a vault from which the other
\* account has withdrawn a part: its own accumulator is the amount ciphertext, the
\* total is the sum of a difference and that ciphertext.
C24_Witness ==
    \E a \in Accounts :
        /\ lastCall = Call("stake", a, 1, "ok")
        /\ _totalStaked = 2 /\ _stakes[a] = 1
        /\ ciphertexts[_stakesCipher[a]].op = "asEuint64"
        /\ ciphertexts[_totalStakedCipher].op = "add"
        /\ ciphertexts[_totalStakedCipher].args[2] = _stakesCipher[a]
        /\ ciphertexts[ciphertexts[_totalStakedCipher].args[1]].op = "sub"

\* What every step must satisfy for C25: in a successful stake or withdraw the
\* token's transfer primitive was invoked on a valid amount, and at that moment
\* the plaintext books, the encryption, both accumulators and the grants were
\* already what the call leaves, while the event was not in the log yet.
C25_Step ==
    IF lastCall'.op \in {"stake", "withdraw"} /\ lastCall'.status = "ok"
    THEN LET encryptedAmount == Len(ciphertexts) + 1
             sender == lastCall'.sender
         IN  /\ ~invalidAmount(lastCall'.amount)
             /\ lastCall'.op = "withdraw" => ~insufficientStake(_stakes[sender], lastCall'.amount)
             /\ atTransfer'.invoked
             /\ atTransfer'._stakes = _stakes' /\ _stakes' # _stakes
             /\ atTransfer'._totalStaked = _totalStaked' /\ _totalStaked' # _totalStaked
             /\ atTransfer'._stakesCipher = _stakesCipher'
             /\ atTransfer'._totalStakedCipher = _totalStakedCipher'
             /\ atTransfer'.ciphertexts = ciphertexts'
             /\ {VAULT, TOKEN} \subseteq atTransfer'.ciphertexts[encryptedAmount].acl
             /\ {VAULT, sender} \subseteq atTransfer'.ciphertexts[_stakesCipher'[sender]].acl
             /\ VAULT \in atTransfer'.ciphertexts[_totalStakedCipher'].acl
             /\ atTransfer'.events = events
             /\ Len(events') = Len(events) + 1
    ELSE ~atTransfer'.invoked /\ events' = events

\* C25 (step order inside a call): validation comes before every mutation; the
\* plaintext bookkeeping, the one encryption, both accumulator updates and the
\* grants, the token's grant on the amount ciphertext included, are done before
\* the token's transfer primitive is invoked; the event is emitted only after the
\* transfer returned.
C25_StepOrder == [][C25_Step]_vars

\* C25 witness: a withdrawal went through; when the token was invoked it saw the
\* reduced stake and total and a log without the Withdrawn event.
C25_Witness ==
    \E a \in Accounts :
        /\ lastCall = Call("withdraw", a, 1, "ok")
        /\ atTransfer.invoked
        /\ atTransfer._stakes[a] = 1 /\ _stakes[a] = 1
        /\ atTransfer._totalStaked = _totalStaked
        /\ Len(atTransfer.events) = 1 /\ Len(events) = 2

\* What every step must satisfy for C26: an initialized handle is replaced only
\* by an initialized handle.
C26_Step ==
    /\ \A a \in Accounts : isInitialized(_stakesCipher[a]) => isInitialized(_stakesCipher'[a])
    /\ isInitialized(_totalStakedCipher) => isInitialized(_totalStakedCipher')

\* An account that has deposited has an entry, also when its stake is back to
\* zero, and then the entry decrypts to 0; the same for the total.
C26_ZeroIsStored ==
    /\ \A a \in Accounts :
          HasStaked(a) =>
              /\ isInitialized(_stakesCipher[a])
              /\ (_stakes[a] = 0 => Decrypted(_stakesCipher[a]) = 0)
    /\ events # << >> =>
          /\ isInitialized(_totalStakedCipher)
          /\ (_totalStaked = 0 => Decrypted(_totalStakedCipher) = 0)

\* C26 (entries are never deleted): once an account's encrypted stake, or the
\* encrypted total, is initialized it stays initialized in every later state; after
\* an account withdrew its whole stake the handle is still initialized and
\* decrypts to 0.
C26_NeverDeleted == [][C26_Step]_vars /\ []C26_ZeroIsStored

\* C26 witness: the only staker has just withdrawn everything; its entry and the
\* total are ciphertexts of 0.
C26_Witness ==
    \E a \in Accounts :
        /\ lastCall.op = "withdraw" /\ lastCall.sender = a /\ lastCall.status = "ok"
        /\ _stakes[a] = 0 /\ _totalStaked = 0
        /\ isInitialized(_stakesCipher[a]) /\ Decrypted(_stakesCipher[a]) = 0
        /\ ciphertexts[_stakesCipher[a]].op = "sub"
        /\ isInitialized(_totalStakedCipher) /\ Decrypted(_totalStakedCipher) = 0

\* C27 (no stake without a ciphertext): an account whose encrypted stake handle
\* is the zero handle has plaintext stake 0, that is, a positive plaintext stake has
\* an initialized handle; a positive plaintext total has an initialized total
\* handle.
C27_PositiveIsInitialized ==
    /\ \A a \in Accounts : ~isInitialized(_stakesCipher[a]) => _stakes[a] = 0
    /\ \A a \in Accounts : _stakes[a] > 0 => isInitialized(_stakesCipher[a])
    /\ _totalStaked > 0 => isInitialized(_totalStakedCipher)

\* C27 witness: one account holds a stake behind an initialized handle while the
\* other, whose deposit was rejected, has the zero handle and stake 0.
C27_Witness ==
    \E x \in Accounts, y \in Accounts :
        /\ x # y
        /\ _stakes[x] = MAX_UINT64 /\ isInitialized(_stakesCipher[x])
        /\ _stakes[y] = 0 /\ ~isInitialized(_stakesCipher[y])
        /\ _totalStaked > 0 /\ isInitialized(_totalStakedCipher)
        /\ lastCall.op = "stake" /\ lastCall.sender = y /\ lastCall.status \in TransferErrors

\* The ways a stake or withdraw ends.
Outcomes == {"ok", "InvalidAmount", "InsufficientStake", "Panic"} \cup TransferErrors

\* What every step must satisfy for C28: a stake or withdraw ends in one of the
\* outcomes, with its full effect or, reported as a failure, with none; and the
\* vault's and the token's state move only in a step that is a successful call.
C28_Step ==
    /\ (lastCall'.op \in {"stake", "withdraw"}) =>
          /\ lastCall'.status \in Outcomes
          /\ IF lastCall'.status = "ok"
             THEN LET a == lastCall'.sender
                      d == lastCall'.amount
                  IN  /\ d > 0
                      /\ IF lastCall'.op = "stake"
                         THEN /\ _stakes' = [_stakes EXCEPT ![a] = @ + d]
                              /\ _totalStaked' = _totalStaked + d
                              /\ balances' = [balances EXCEPT ![a] = @ - d, ![VAULT] = @ + d]
                         ELSE /\ _stakes' = [_stakes EXCEPT ![a] = @ - d]
                              /\ _totalStaked' = _totalStaked - d
                              /\ balances' = [balances EXCEPT ![a] = @ + d, ![VAULT] = @ - d]
                      /\ Len(events') = Len(events) + 1
             ELSE UNCHANGED <<ledgerVars, registryVars>>
    /\ (<<ledgerVars, registryVars>>' # <<ledgerVars, registryVars>>) =>
          /\ lastCall'.op \in {"stake", "withdraw", "mint", "setOperator", "transfer"}
          /\ lastCall'.status = "ok"

\* C28 (synchronous outcome, no retry): every stake or withdraw ends at once with
\* full success or a reported failure; after a failed call the vault's and the
\* token's state change only when a new call is made.
C28_NoRetry == [][C28_Step]_vars

\* C28 witness: a deposit failed for want of a delegation although the caller
\* holds the tokens; nothing is pending, the books are empty.
C28_Witness ==
    \E a \in Accounts :
        /\ lastCall = Call("stake", a, 1, "UnauthorizedSpender")
        /\ balances[a] >= 1
        /\ _stakes[a] = 0 /\ ~isInitialized(_stakesCipher[a])
        /\ events = << >> /\ ciphertexts = << >>

\* What the vault holds in the token beyond its plaintext total.
Surplus == balances[VAULT] - _totalStaked

\* What every step must satisfy for C29: the surplus moves only by a transfer
\* made directly on the token, and only up; a withdrawal is never refused by the
\* token.
C29_Step ==
    /\ Surplus' >= Surplus
    /\ (Surplus' # Surplus) => lastCall' = Call("transfer", "none", 0, "ok")
    /\ (lastCall'.op = "withdraw") =>
          lastCall'.status \in {"ok", "InvalidAmount", "InsufficientStake"}

\* C29 (solvency): the vault's confidential balance in the token equals the
\* plaintext total as long as tokens reach the vault only through stake and leave
\* it only through withdraw; with transfers made directly to the vault it is at
\* least the plaintext total, so a withdraw that passes the plaintext stake check
\* never fails for insufficient vault balance.
C29_Solvency == [](Surplus >= 0) /\ [][C29_Step]_vars

\* C29 witness: with a token sent directly to the vault, the only staker withdrew
\* everything; the vault still holds the token sent to it.
C29_Witness ==
    \E a \in Accounts :
        /\ lastCall = Call("withdraw", a, 1, "ok")
        /\ _totalStaked = 0
        /\ balances[VAULT] = 1
        /\ Surplus = 1

\* The sum of the amounts of a sequence of events.
RECURSIVE SumAmounts(_)
SumAmounts(log) ==
    IF log = << >> THEN 0 ELSE Head(log).amount + SumAmounts(Tail(log))

\* What account a has deposited and withdrawn so far, by the log of the
\* successful calls.
DepositsOf(a) == SumAmounts(SelectSeq(events, LAMBDA e : e.name = "Staked" /\ e.user = a))

WithdrawalsOf(a) == SumAmounts(SelectSeq(events, LAMBDA e : e.name = "Withdrawn" /\ e.user = a))

\* C30 (no account withdraws more than it deposited): in every history the sum of
\* an account's successful withdrawals is at most the sum of its successful
\* deposits, and its plaintext stake is the difference; so no account withdraws
\* what another account staked.
C30_OwnDepositsOnly ==
    \A a \in Accounts :
        /\ WithdrawalsOf(a) <= DepositsOf(a)
        /\ _stakes[a] = DepositsOf(a) - WithdrawalsOf(a)

\* C30 witness: both accounts hold a stake of 1; an account asking for 2, which
\* the vault as a whole could pay, has just been refused.
C30_Witness ==
    \E x \in Accounts, y \in Accounts :
        /\ x # y
        /\ lastCall = Call("withdraw", x, 2, "InsufficientStake")
        /\ DepositsOf(x) = 1 /\ WithdrawalsOf(x) = 0
        /\ _stakes[y] = 1
        /\ balances[VAULT] >= 2

\* C31 (withdraw needs no delegation): an account with a plaintext stake of at
\* least amount > 0 withdraws successfully whether or not it has a live operator
\* delegation to the vault (never granted, revoked or expired), the transfer-out
\* moving the vault's own balance; so the expiry of a delegation never locks
\* staked funds.
C31_WithdrawWithoutDelegation ==
    \A a \in Accounts, amount \in 1..MAX_UINT64 :
        amount <= _stakes[a] =>
            LET r == withdraw(World, a, amount)
            IN  /\ r.status = "ok"
                /\ r.w._stakes[a] = _stakes[a] - amount
                /\ r.w.balances[a] = balances[a] + amount

\* C31 witness: the delegation of an account expired while it had a stake, and
\* its withdrawal has just gone through.
C31_Witness ==
    \E a \in Accounts :
        /\ lastCall = Call("withdraw", a, 1, "ok")
        /\ operators[a] = MaxTime /\ now = MaxTime + 1
        /\ ~isVaultOperator(World, a)
        /\ balances[a] >= 1

\* The last event of the log that satisfies P is a Withdrawn event.
LastIsWithdrawn(P(_)) ==
    LET mine == SelectSeq(events, P)
    IN  mine # << >> /\ mine[Len(mine)].name = "Withdrawn"

\* C32 (a withdraw never takes the first-write branch): whenever a withdraw passes
\* the plaintext check the caller's encrypted stake and the encrypted total are
\* already initialized, so an accumulator last written by a withdraw is the
\* FHE.sub of an initialized handle and never the amount ciphertext itself.
C32_WithdrawNeverFirstWrite ==
    /\ \A a \in Accounts :
          LastIsWithdrawn(LAMBDA e : e.user = a) =>
              /\ ciphertexts[_stakesCipher[a]].op = "sub"
              /\ isInitialized(ciphertexts[_stakesCipher[a]].args[1])
    /\ LastIsWithdrawn(LAMBDA e : TRUE) =>
          /\ ciphertexts[_totalStakedCipher].op = "sub"
          /\ isInitialized(ciphertexts[_totalStakedCipher].args[1])
    /\ \A a \in Accounts, amount \in 1..MAX_UINT64 :
          ~insufficientStake(_stakes[a], amount) =>
              isInitialized(_stakesCipher[a]) /\ isInitialized(_totalStakedCipher)

\* C32 witness: the first withdrawal from the vault, by its only depositor: both
\* accumulators were the ciphertext of the deposit and are now differences.
C32_Witness ==
    \E a \in Accounts :
        /\ events = <<Staked(a, 2), Withdrawn(a, 1)>>
        /\ ciphertexts[_stakesCipher[a]].op = "sub"
        /\ ciphertexts[_stakesCipher[a]].args = <<1, 2>>
        /\ ciphertexts[_totalStakedCipher].op = "sub"
        /\ ciphertexts[_totalStakedCipher].args = <<1, 2>>

\* Ciphertext h was computed without wrapping modulo 2^64.
NotWrapped(h) ==
    LET c == ciphertexts[h]
    IN  /\ c.op = "add" => c.val = ciphertexts[c.args[1]].val + ciphertexts[c.args[2]].val
        /\ c.op = "sub" => ciphertexts[c.args[1]].val >= ciphertexts[c.args[2]].val

\* The plaintext counters fit 64 bits and no ciphertext was computed with a wrap.
WithinWidth ==
    /\ \A a \in Accounts : _stakes[a] <= MAX_UINT64
    /\ _totalStaked <= MAX_UINT64
    /\ MAX_UINT64 < MAX_UINT256
    /\ \A h \in 1..Len(ciphertexts) : NotWrapped(h)

\* C33 (width agreement): every plaintext stake and the plaintext total are at
\* most 2^64 - 1 in every reachable state, so no 64-bit encrypted accumulator ever
\* wrapped, although the plaintext counters are 256 bits wide.
C33_WidthAgreement == []WithinWidth

\* C33 witness: the stakes of both accounts add up to the largest 64-bit value,
\* the encrypted total is a sum that holds exactly that, and a further deposit
\* has just been refused by the token.
C33_Witness ==
    \E a \in Accounts :
        /\ _totalStaked = MAX_UINT64
        /\ \A b \in Accounts : _stakes[b] > 0
        /\ ciphertexts[_totalStakedCipher].op = "add"
        /\ Decrypted(_totalStakedCipher) = MAX_UINT64
        /\ lastCall = Call("stake", a, 1, "InsufficientBalance")

\* C34: the plaintext total is at least every account's plaintext stake, so in a
\* withdrawal that passed the stake check the subtraction from the total cannot
\* underflow: no call ends in an arithmetic panic, and the same order holds between
\* the encrypted total and every encrypted stake.
C34_TotalCoversEveryStake ==
    /\ \A a \in Accounts :
           /\ _totalStaked >= _stakes[a]
           /\ decrypt(World, _totalStakedCipher) >= decrypt(World, _stakesCipher[a])
           /\ \A amount \in 1..MAX_UINT64 :
                  ~insufficientStake(_stakes[a], amount) => _totalStaked >= amount
    /\ lastCall.status # "Panic"

\* C34 witness: the only staker has just withdrawn the whole total, the tightest
\* case of the subtraction.
C34_Witness ==
    \E a \in Accounts :
        /\ lastCall = Call("withdraw", a, MAX_UINT64, "ok")
        /\ _totalStaked = 0
        /\ Decrypted(_totalStakedCipher) = 0
        /\ events[Len(events)] = Withdrawn(a, MAX_UINT64)
        /\ \E i \in 1..Len(events) : events[i] = Staked(a, MAX_UINT64)

\* C35 (who can decrypt the total): whenever the encrypted total is initialized,
\* the vault is the only principal granted decryption rights on its current
\* handle. Not an invariant of the contract: on the vault's first deposit the total
\* handle is the handle of the deposited amount (line 1103), which is also the
\* depositor's stake handle, granted to the depositor (line 1097), and on which
\* stake then calls FHE.allow(encryptedAmount, address(token)) (line 1014).
C35_OnlyVaultReadsTotal ==
    isInitialized(_totalStakedCipher) =>
        ciphertexts[_totalStakedCipher].acl = {VAULT}

(***************************************************************************)
(* The front end.  A text field holds a string; the model keeps of a       *)
(* string what the handlers look at: whether it is empty, blank, not a     *)
(* decimal number, or a decimal number and the base units it parses to.    *)
(***************************************************************************)
Text(kind, units) == [kind |-> kind, units |-> units]

Empty == Text("empty", 0)

Blank == Text("blank", 0)

Malformed == Text("malformed", 0)

Decimal(units) == Text("decimal", units)

Inputs == {Empty, Blank, Malformed} \cup {Decimal(n) : n \in {0 - 1, 0, 1, MAX_UINT64, MAX_UINT64 + 1}}

\* String.prototype.trim: a blank string becomes the empty string.
trim(value) == IF value = Blank THEN Empty ELSE value

Thrown == [ok |-> FALSE, parsed |-> 0]

Parsed(units) == [ok |-> TRUE, parsed |-> units]

\* viem's parseUnits(value, TOKEN_DECIMALS): the base units of a decimal number
\* (0 for the empty string); anything else is an InvalidDecimalNumberError.
parseUnits(value) ==
    IF value = Empty THEN Parsed(0)
    ELSE IF value.kind = "decimal" THEN Parsed(value.units)
    ELSE Thrown

\* ensurePositiveAmount, lines 290-306.
ensurePositiveAmount(value) ==
    IF value = Empty \/ trim(value) = Empty THEN Thrown
    ELSE LET parsed == parseUnits(value)
         IN  IF ~parsed.ok THEN Thrown
             ELSE IF parsed.parsed <= 0 THEN Thrown
             ELSE IF parsed.parsed > MAX_UINT64 THEN Thrown
             ELSE parsed

\* What a handler does between setPendingAction(action) and its first await:
\* mint and stake validate their field, withdraw also compares the amount with
\* the last fetched stake, authorize has no field.
validated(action, value) ==
    IF action = "authorize" THEN Parsed(0)
    ELSE LET amount == ensurePositiveAmount(value)
         IN  IF ~amount.ok THEN Thrown
             ELSE IF action = "withdraw" /\ amount.parsed > plainStake THEN Thrown
             ELSE amount

\* Variant: the handler has no finally block.
catchFinally_noFinally(action) == [status |-> "error", pendingAction |-> pendingAction]

\* A handler's catch block followed by its finally block: the error is shown and
\* the pending marker is cleared.
catchFinally(action) == [status |-> "error", pendingAction |-> Null]

\* disabled={pendingAction === 'mint'} and the three like it.
disabled(action) == pendingAction = action

isConnected == address # NoAddress

\* What the front end leaves alone: all of the chain but the plaintext stakes.
chainRest == <<token, _stakesCipher, _totalStakedCipher, ciphertexts, events, balances,
               operators, now, transferred, atTransfer, lastCall>>

\* The page is opened on a deployed vault.
UIInit ==
    /\ token = TOKEN
    /\ _stakes = [a \in Accounts |-> 0]
    /\ _stakesCipher = [a \in Accounts |-> ZeroHandle]
    /\ _totalStaked = 0
    /\ _totalStakedCipher = ZeroHandle
    /\ ciphertexts = << >>
    /\ events = << >>
    /\ balances = [h \in Holders |-> 0]
    /\ operators = [a \in Accounts |-> 0]
    /\ now = 1
    /\ transferred = ZeroHandle
    /\ atTransfer = [invoked |-> FALSE]
    /\ lastCall = NoCall
    /\ Mounted

\* The wallet connects (useAccount).
Connect ==
    /\ address = NoAddress
    /\ address' = User
    /\ UNCHANGED <<status, pendingAction, plainStake, runs, _stakes, _totalStaked, chainRest>>

\* handleMint, handleAuthorize, handleStake, handleWithdraw up to the first await:
\* the button is enabled and clicked with `value` in the action's field.
Handle(action, value) ==
    /\ ~disabled(action)
    /\ IF ~isConnected
       THEN /\ status' = "error"
            /\ UNCHANGED <<pendingAction, runs>>
       ELSE LET amount == validated(action, value)
            IN  IF ~amount.ok
                THEN /\ status' = catchFinally(action).status
                     /\ pendingAction' = catchFinally(action).pendingAction
                     /\ UNCHANGED runs
                ELSE /\ \E s \in Slots :
                            /\ runs[s] = NoRun
                            /\ \A t \in 1..(s - 1) : runs[t] # NoRun
                            /\ runs' = [runs EXCEPT ![s] = Run(action, amount.parsed, "wallet")]
                     /\ pendingAction' = action
                     /\ status' = "info"
    /\ UNCHANGED <<address, plainStake, _stakes, _totalStaked, chainRest>>

\* await ensureSigner() and the await of the contract method settle: the wallet
\* has sent the transaction, or there is no signer or the wallet refuses and the
\* handler's catch and finally blocks run.
WalletSettles(s, sent) ==
    /\ runs[s].phase = "wallet"
    /\ IF sent
       THEN /\ runs' = [runs EXCEPT ![s].phase = "tx"]
            /\ UNCHANGED <<status, pendingAction>>
       ELSE /\ runs' = [runs EXCEPT ![s] = NoRun]
            /\ status' = catchFinally(runs[s].action).status
            /\ pendingAction' = catchFinally(runs[s].action).pendingAction
    /\ UNCHANGED <<address, plainStake, _stakes, _totalStaked, chainRest>>

\* The vault accepts the transaction: a withdrawal within the stake, a deposit
\* the token can carry.
accepted(action, amount) ==
    CASE action = "stake" -> _totalStaked + amount <= MAX_UINT64
      [] action = "withdraw" -> ~insufficientStake(_stakes[User], amount)
      [] OTHER -> TRUE

\* The plaintext stakes after the confirmed transaction.
confirmedOn(w, action, amount) ==
    CASE action = "stake" -> stakePlain(w, User, amount)
      [] action = "withdraw" -> withdrawPlain(w, User, amount)
      [] OTHER -> w

\* await tx.wait() settles: the transaction is confirmed and the handler shows
\* success, or it has reverted and the handler's catch and finally blocks run.
TxSettles(s, confirmed) ==
    /\ runs[s].phase = "tx"
    /\ IF confirmed
       THEN /\ accepted(runs[s].action, runs[s].amount)
            /\ LET w == confirmedOn(World, runs[s].action, runs[s].amount)
               IN  /\ _stakes' = w._stakes
                   /\ _totalStaked' = w._totalStaked
            /\ runs' = [runs EXCEPT ![s].phase = "queries"]
            /\ status' = "success"
            /\ UNCHANGED pendingAction
       ELSE /\ runs' = [runs EXCEPT ![s] = NoRun]
            /\ status' = catchFinally(runs[s].action).status
            /\ pendingAction' = catchFinally(runs[s].action).pendingAction
            /\ UNCHANGED <<_stakes, _totalStaked>>
    /\ UNCHANGED <<address, plainStake, chainRest>>

\* The vault-state query: what the page shows as the account's stake.
fetched == IF isConnected THEN getStake(World, User) ELSE 0

\* await updateQueries() settles: the queries have been fetched again and the
\* finally block runs.
QueriesSettle(s) ==
    /\ runs[s].phase = "queries"
    /\ runs' = [runs EXCEPT ![s] = NoRun]
    /\ plainStake' = fetched
    /\ pendingAction' = Null
    /\ UNCHANGED <<address, status, _stakes, _totalStaked, chainRest>>

\* refetchInterval: 15000.
Refetch ==
    /\ plainStake' = fetched
    /\ UNCHANGED <<address, status, pendingAction, runs, _stakes, _totalStaked, chainRest>>

UINext ==
    \/ Connect
    \/ \E value \in Inputs : Handle("mint", value)
    \/ Handle("authorize", Empty)
    \/ \E value \in Inputs : Handle("stake", value)
    \/ \E value \in Inputs : Handle("withdraw", value)
    \/ \E s \in Slots, sent \in BOOLEAN : WalletSettles(s, sent)
    \/ \E s \in Slots, confirmed \in BOOLEAN : TxSettles(s, confirmed)
    \/ \E s \in Slots : QueriesSettle(s)
    \/ Refetch

\* Every await of a handler settles: the wallet answers, the transaction is
\* confirmed or rejected, the queries come back.
UIFairness ==
    \A s \in Slots :
        /\ WF_vars(\E sent \in BOOLEAN : WalletSettles(s, sent))
        /\ WF_vars(\E confirmed \in BOOLEAN : TxSettles(s, confirmed))
        /\ WF_vars(QueriesSettle(s))

UISpec == UIInit /\ [][UINext]_vars /\ UIFairness

\* C36 (front-end single flight): while a run of an action is in flight, that
\* action's button is disabled (pendingAction is that action), so no two runs of
\* the same action are in flight together.  Not an invariant of the component:
\* the four handlers share the one pendingAction, which another handler overwrites
\* on its click and clears in its finally block.
C36_SingleFlight ==
    \A s \in Slots :
        runs[s] # NoRun =>
            /\ disabled(runs[s].action)
            /\ \A t \in Slots \ {s} : runs[t].action # runs[s].action

\* Slot s held a run and the step ends it.
Released(s) == runs[s] # NoRun /\ runs'[s] = NoRun

\* A step that ends a run clears the pending marker; it leaves success shown only
\* if the run's transaction was confirmed and shows an error if it was not.  A
\* click whose validation throws does the same within the one step.
C37_ReleaseRule ==
    /\ \A s \in Slots :
           Released(s) =>
               /\ pendingAction' = Null
               /\ status' = "success" => runs[s].phase = "queries"
               /\ runs[s].phase # "queries" => status' = "error"
    /\ \A action \in Actions, value \in Inputs :
           (isConnected /\ ~validated(action, value).ok /\ Handle(action, value)) =>
               /\ pendingAction' = Null
               /\ status' = "error"
               /\ runs' = runs

Sent(s) == runs[s].phase = "wallet" /\ runs'[s].phase = "tx"

\* C38 (front-end validation): a mint, stake or withdraw transaction the front
\* end sends carries an amount in 1..MAX_UINT64, and a withdraw it sends does not
\* exceed the last fetched plaintext stake; a click whose input fails these
\* checks starts nothing and shows an error.  Not a property of the component:
\* the withdraw amount is compared with the stake once, at the click.
C38_ValidatedSubmissions ==
    [][ /\ \A s \in Slots :
               Sent(s) =>
                   /\ runs[s].action # "authorize" => runs[s].amount \in 1..MAX_UINT64
                   /\ runs[s].action = "withdraw" => runs[s].amount <= plainStake
        /\ \A action \in Actions, value \in Inputs :
               (isConnected /\ ~validated(action, value).ok /\ Handle(action, value)) =>
                   status' = "error" /\ runs' = runs
      ]_vars

=============================================================================
